---- MODULE Spec2Model ----
\* State-machine model of the support-ticket relay bot (src/app.py) and of the
\* standalone ticket store (src/db_pg.py).
EXTENDS Integers, Sequences, FiniteSets, TLC

\* ---------------------------------------------------------------- bounds
\* Inbound free-text messages handled by capture_user_text.
MaxMsgs == 1
\* Rows the standalone store's tickets table holds.
MaxPgRows == 2

\* ------------------------------------------------------- program constants
\* The two users talking to the bot; a private chat's id is its user's id.
Users == {1, 2}
\* app.py:39, the operator destination (a stand-in for 8088620127).
ADMIN_CHAT_ID == 99
\* app.py:146, INTERVAL '24 hours'.
FRESH_HOURS == 24
None == "None"
SCHEDULE == "Schedule a Call"
SUPPORT == "Talk To Support"
\* app.py:506, the categories capture_user_text accepts.
CaptureSections == {SCHEDULE, SUPPORT}
\* app.py:180, the conversation states; NoConv is a user with no conversation.
MAIN_MENU == "MAIN_MENU"
AGENCY_MENU == "AGENCY_MENU"
CLOAKING_MENU == "CLOAKING_MENU"
NoConv == "NoConv"
\* app.py:190-229, the callback data of every button the keyboards hold.
CallbackData ==
    {"main:agency", "main:cloaking", "agency:about", "agency:howto", "agency:faq",
     "agency:aurora", "agency:schedule", "agency:support", "nav:back:main",
     "nav:back:agency"}
\* The users' public handle (None when the user has none) and display name.
Username == [u \in Users |-> IF u = 1 THEN "ann" ELSE None]
FullName == [u \in Users |-> IF u = 1 THEN "Ann A" ELSE "Bob B"]
\* The clock advances in steps of half the freshness window, so that a session
\* is read at 0, 12 and exactly 24 hours after its last activity.
TickHours == FRESH_HOURS \div 2
\* A user with no row in support_sessions.
NoRow == [section |-> None, idle |-> 0]
\* The environments the model is explored in. users: who talks to the bot;
\* faults: the handlers whose store calls and deliveries may fail ("nav": the
\* commands and menus, "capture": capture_user_text, "reply": cmd_reply);
\* clock: time passes; operator: someone sends /reply; restart: the process
\* may restart; msgs: the free-text messages the users send.
Scenarios ==
    {[users |-> {1}, faults |-> {"nav", "capture"}, clock |-> TRUE, operator |-> FALSE,
      restart |-> TRUE, msgs |-> MaxMsgs],
     [users |-> Users, faults |-> {}, clock |-> FALSE, operator |-> TRUE,
      restart |-> FALSE, msgs |-> MaxMsgs],
     [users |-> {2}, faults |-> {"capture", "reply"}, clock |-> FALSE, operator |-> TRUE,
      restart |-> TRUE, msgs |-> MaxMsgs]}
\* The environment in which one user sends one message more, nothing fails,
\* and the operator, the clock and restarts are all present.
RelayScenarios ==
    {[users |-> {1}, faults |-> {}, clock |-> TRUE, operator |-> TRUE,
      restart |-> TRUE, msgs |-> MaxMsgs + 1]}

VARIABLES
    env,              \* the environment, one of Scenarios
    user_data,        \* context.user_data["section"] of each user
    conv,             \* ConversationHandler state of each user
    support_sessions, \* table support_sessions, keyed by user_id; idle is
                      \* NOW() - last_activity in hours, kept up to FRESH_HOURS
    tickets,          \* table tickets, in insertion order
    starts,           \* table starts: the user_ids it holds
    tasks,            \* the capture_user_text invocations, one per inbound text
    adminChat,        \* the headers delivered to ADMIN_CHAT_ID; index = message_id
    last_reply,       \* what the process's most recent cmd_reply invocation sent
    pgTickets,        \* db_pg: table tickets
    pgResult          \* db_pg: what the most recent call returned

appVars == <<env, user_data, conv, support_sessions, tickets, starts, tasks,
             adminChat, last_reply>>
pgVars == <<pgTickets, pgResult>>
vars == <<env, user_data, conv, support_sessions, tickets, starts, tasks,
          adminChat, last_reply, pgTickets, pgResult>>

\* ------------------------------------------------------------ the store
\* INSERT INTO tickets ... RETURNING ticket_id: the table after the insert.
db_save_ticket(tbl, user_id, section, admin_msg_id) ==
    Append(tbl, [ticket_id |-> Len(tbl) + 1, user_id |-> user_id,
                 section |-> section, admin_msg_id |-> admin_msg_id,
                 status |-> "open"])

\* INSERT INTO starts (user_id).
db_save_start(tbl, user_id) == tbl \cup {user_id}

\* Mutant: ON CONFLICT (user_id) DO NOTHING, the existing row is kept as it is.
db_start_support_session_keep(tbl, user_id, section) ==
    IF tbl[user_id] # NoRow THEN tbl
    ELSE [tbl EXCEPT ![user_id] = [section |-> section, idle |-> 0]]

\* INSERT ... ON CONFLICT (user_id) DO UPDATE SET section, last_activity = NOW().
db_start_support_session(tbl, user_id, section) ==
    [tbl EXCEPT ![user_id] = [section |-> section, idle |-> 0]]

\* Mutant: the SELECT without its last_activity filter.
db_get_support_session_unfiltered(tbl, user_id) ==
    IF tbl[user_id] # NoRow THEN tbl[user_id].section ELSE None

\* Mutant: the last_activity comparison turned around.
db_get_support_session_reversed(tbl, user_id) ==
    IF tbl[user_id] # NoRow /\ tbl[user_id].idle >= FRESH_HOURS
    THEN tbl[user_id].section
    ELSE None

\* Mutant: last_activity >= NOW() - 24 hours, a session exactly 24 hours old is active.
db_get_support_session_inclusive(tbl, user_id) ==
    IF tbl[user_id] # NoRow /\ tbl[user_id].idle <= FRESH_HOURS
    THEN tbl[user_id].section
    ELSE None

\* SELECT section ... WHERE user_id = %s AND last_activity > NOW() - 24 hours.
db_get_support_session(tbl, user_id) ==
    IF tbl[user_id] # NoRow /\ tbl[user_id].idle < FRESH_HOURS
    THEN tbl[user_id].section
    ELSE None

\* DELETE FROM support_sessions WHERE user_id = %s.
db_end_support_session(tbl, user_id) == [tbl EXCEPT ![user_id] = NoRow]

\* UPDATE support_sessions SET last_activity = NOW() WHERE user_id = %s.
db_touch_support_session(tbl, user_id) ==
    IF tbl[user_id] = NoRow THEN tbl ELSE [tbl EXCEPT ![user_id].idle = 0]

\* No ticket: what db_get_ticket_by_admin_msg_id returns for an unknown id.
NoTicket == [ticket_id |-> 0, user_id |-> 0, section |-> None]

\* Mutant: the SELECT without its WHERE clause.
db_get_ticket_by_admin_msg_id_any(tbl, admin_msg_id) ==
    IF tbl = <<>> THEN NoTicket
    ELSE [ticket_id |-> tbl[1].ticket_id, user_id |-> tbl[1].user_id,
          section |-> tbl[1].section]

\* Mutant: the SELECT joins support_sessions and finds only the tickets of users
\* whose session is active.
db_get_ticket_by_admin_msg_id_active(tbl, admin_msg_id) ==
    LET hits == {i \in DOMAIN tbl :
                    /\ tbl[i].admin_msg_id = admin_msg_id
                    /\ db_get_support_session(support_sessions, tbl[i].user_id) # None}
    IN IF hits = {} THEN NoTicket
       ELSE LET i == CHOOSE j \in hits : \A h \in hits : j <= h
            IN [ticket_id |-> tbl[i].ticket_id, user_id |-> tbl[i].user_id,
                section |-> tbl[i].section]

\* SELECT ticket_id, user_id, section FROM tickets WHERE admin_msg_id = %s; fetchone().
db_get_ticket_by_admin_msg_id(tbl, admin_msg_id) ==
    LET hits == {i \in DOMAIN tbl : tbl[i].admin_msg_id = admin_msg_id}
    IN IF hits = {} THEN NoTicket
       ELSE LET i == CHOOSE j \in hits : \A h \in hits : j <= h
            IN [ticket_id |-> tbl[i].ticket_id, user_id |-> tbl[i].user_id,
                section |-> tbl[i].section]

\* ------------------------------------------------------------- helpers
\* Texts are sequences of characters. A character that has no escape in a
\* string is written by its code point, "U+00A0".
\* The characters c with c.isspace(), which str.strip, lstrip and rstrip remove
\* when called with no argument (app.py:549).
Whitespace ==
    {" ", "\t", "\n", "\r", "\f", "U+000B", "U+001C", "U+001D", "U+001E", "U+001F",
     "U+0085", "U+00A0", "U+1680", "U+2000", "U+2001", "U+2002", "U+2003", "U+2004",
     "U+2005", "U+2006", "U+2007", "U+2008", "U+2009", "U+200A", "U+2028", "U+2029",
     "U+202F", "U+205F", "U+3000"}

\* str.removeprefix.
removeprefix(s, prefix) ==
    IF Len(s) >= Len(prefix) /\ SubSeq(s, 1, Len(prefix)) = prefix
    THEN SubSeq(s, Len(prefix) + 1, Len(s))
    ELSE s

RECURSIVE lstrip(_)
lstrip(s) == IF s # <<>> /\ Head(s) \in Whitespace THEN lstrip(Tail(s)) ELSE s

RECURSIVE rstrip(_)
rstrip(s) ==
    IF s # <<>> /\ s[Len(s)] \in Whitespace THEN rstrip(SubSeq(s, 1, Len(s) - 1)) ELSE s

\* str.strip.
strip(s) == rstrip(lstrip(s))

\* Mutant: the header gives no user id, "(id unknown)".
build_ticket_header_unknown(section, user, text) ==
    [section |-> section,
     uname |-> IF Username[user] # None THEN "@" \o Username[user] ELSE FullName[user],
     id |-> 0, body |-> text]

\* The header of a ticket: f"[{section}] From {uname} (id {user.id}):\n{text}".
build_ticket_header(section, user, text) ==
    [section |-> section,
     uname |-> IF Username[user] # None THEN "@" \o Username[user] ELSE FullName[user],
     id |-> user, body |-> text]

\* The bot's answers to the operator (app.py:537, 546, 551, 556).
REPLY_USAGE == [text |-> "Please reply to a ticket message with /reply <text>.", user |-> 0]
NOT_FOUND ==
    [text |-> "Couldn't find the ticket mapping. Please reply to the original ticket header.",
     user |-> 0]
USAGE == [text |-> "Usage: /reply <message to user>", user |-> 0]
\* f"Sent to user {user_id}."
SentTo(user_id) == [text |-> "Sent to user", user |-> user_id]

\* The texts of the /reply messages the dispatcher hands to cmd_reply
\* (app.py:647): the command, alone or with the bot's name, and its argument.
CMD_REPLY == <<"/", "r", "e", "p", "l", "y">>
BOT_NAME == <<"@", "b">>
HI == <<"h", "i">>
\* The command token of a /reply message: "/reply" or "/reply@<bot username>",
\* both of which CommandHandler("reply", cmd_reply) accepts.
ReplyCommands == {CMD_REPLY, CMD_REPLY \o BOT_NAME}
\* What the operator writes after the command token.
ReplyArgs == {<<>>, HI}
\* msg.text of a /reply message.
MessageText(command, args) ==
    IF args = <<>> THEN command ELSE command \o <<" ">> \o args
ReplyTexts == {MessageText(c, a) : c \in ReplyCommands, a \in ReplyArgs}
\* The chats a /reply may come from besides the operator destination.
OtherChats == Users
\* msg.reply_to_message: <<>> when the /reply replies to nothing, or <<id>>. Ids
\* up to Len(adminChat) are headers; every other id is a message that is no header.
ReplyTargets == {<<>>} \cup {<<m>> : m \in 0 .. env.msgs}

\* The locals of a capture_user_text invocation before they are read.
NoLocals == [session_section |-> None, db_section |-> None, section |-> None]

NewTask(user, private, pc, locals) ==
    [user |-> user, private |-> private, pc |-> pc,
     session_section |-> locals.session_section, db_section |-> locals.db_section,
     section |-> locals.section, acks |-> 0]

\* No /reply handled yet: chat_id is the chat of the invocation, looked_up
\* whether it queried the tickets table, to_user and to_admin what it sent, pc
\* where the invocation is: "await_556" while it awaits the delivery of its
\* answer to the operator after the delivery to the user, "over" once it has
\* returned or raised.
NoReply ==
    [chat_id |-> 0, looked_up |-> FALSE, to_user |-> <<>>, to_admin |-> <<>>, pc |-> "none"]

\* db_pg: no call made yet. op and arg are the function called and its
\* admin_msg_id; type and value are the Python value it returned or the
\* exception it raised.
PgNoResult == [op |-> None, arg |-> 0, type |-> None, value |-> <<>>]

\* app.py:631, ApplicationBuilder().token(BOT_TOKEN).build() leaves the
\* Application's concurrent_updates at its default.
concurrent_updates == FALSE

\* The dispatcher may hand the next update to its handler: without
\* concurrent_updates it does so once the handler of the previous update is over.
Dispatchable ==
    \/ concurrent_updates
    \/ /\ \A k \in DOMAIN tasks : tasks[k].pc \notin {"await_514", "await_528"}
       /\ last_reply.pc # "await_556"

\* The outcomes of the n store calls and deliveries of one invocation of a
\* handler, in the order it makes them: TRUE is success. The handler stops at the
\* first call that raises, so at most one of them is seen to fail.
Outcomes(handler, n) ==
    IF handler \in env.faults
    THEN {ok \in [1..n -> BOOLEAN] : Cardinality({i \in 1..n : ~ok[i]}) <= 1}
    ELSE {[i \in 1..n |-> TRUE]}

\* The state after construction, in one of the environments of S.
InitIn(S) ==
    /\ env \in S
    /\ user_data = [u \in Users |-> None]
    /\ conv = [u \in Users |-> NoConv]
    /\ support_sessions = [u \in Users |-> NoRow]
    /\ tickets = <<>>
    /\ starts = {}
    /\ tasks = <<>>
    /\ adminChat = <<>>
    /\ last_reply = NoReply
    /\ pgTickets = <<>>
    /\ pgResult = PgNoResult

Init == InitIn(Scenarios)

\* ------------------------------------------------------------ handlers
\* /start (app.py:330-343). ok_save, ok_end: the two store calls succeed;
\* ok_send: the reply with the root menu is delivered.
start(u, ok_save, ok_end, ok_send) ==
    /\ Dispatchable
    /\ starts' = IF ok_save THEN db_save_start(starts, u) ELSE starts
    /\ support_sessions' = IF ok_save /\ ok_end
                           THEN db_end_support_session(support_sessions, u)
                           ELSE support_sessions
    /\ user_data' = [user_data EXCEPT ![u] = None]
    /\ conv' = IF ok_send THEN [conv EXCEPT ![u] = MAIN_MENU] ELSE conv
    /\ UNCHANGED <<env, tickets, tasks, adminChat, last_reply, pgVars>>

\* /endsupport (app.py:353-361).
cmd_end_support(u, ok_db) ==
    /\ Dispatchable
    /\ support_sessions' = IF ok_db THEN db_end_support_session(support_sessions, u)
                           ELSE support_sessions
    /\ user_data' = IF ok_db THEN [user_data EXCEPT ![u] = None] ELSE user_data
    /\ UNCHANGED <<env, conv, tickets, starts, tasks, adminChat, last_reply, pgVars>>

\* A button pressed in state MAIN_MENU (app.py:363-406).
main_menu(u, data, ok_send) ==
    /\ Dispatchable
    /\ conv[u] = MAIN_MENU
    /\ conv' = IF ~ok_send THEN conv
               ELSE IF data = "main:agency" THEN [conv EXCEPT ![u] = AGENCY_MENU]
               ELSE IF data = "main:cloaking" THEN [conv EXCEPT ![u] = CLOAKING_MENU]
               ELSE IF data = "nav:back:agency" THEN [conv EXCEPT ![u] = AGENCY_MENU]
               ELSE [conv EXCEPT ![u] = MAIN_MENU]
    /\ UNCHANGED <<env, user_data, support_sessions, tickets, starts, tasks, adminChat,
                   last_reply, pgVars>>

\* The value agency_router leaves in user_data["section"] (app.py:415-470).
agency_flag(data, old) ==
    IF data \in {"nav:back:main", "agency:about", "agency:howto", "agency:faq",
                 "agency:aurora"} THEN None
    ELSE IF data = "agency:schedule" THEN SCHEDULE
    ELSE IF data = "agency:support" THEN SUPPORT
    ELSE old

\* Mutant: going back to the root menu does not end the support session.
agency_store_no_end(tbl, u, data) ==
    IF data = "agency:schedule" THEN db_start_support_session(tbl, u, SCHEDULE)
    ELSE IF data = "agency:support" THEN db_start_support_session(tbl, u, SUPPORT)
    ELSE tbl

\* Mutant: every item that clears the flag also ends the support session.
agency_store_end_with_flag(tbl, u, data) ==
    IF data = "agency:schedule" THEN db_start_support_session(tbl, u, SCHEDULE)
    ELSE IF data = "agency:support" THEN db_start_support_session(tbl, u, SUPPORT)
    ELSE IF agency_flag(data, SUPPORT) = None THEN db_end_support_session(tbl, u)
    ELSE tbl

\* The support_sessions table after agency_router's store call (app.py:418, 465, 472).
agency_store(tbl, u, data) ==
    IF data = "nav:back:main" THEN db_end_support_session(tbl, u)
    ELSE IF data = "agency:schedule" THEN db_start_support_session(tbl, u, SCHEDULE)
    ELSE IF data = "agency:support" THEN db_start_support_session(tbl, u, SUPPORT)
    ELSE tbl

\* A button pressed in state AGENCY_MENU (app.py:408-477). ok_answer:
\* query.answer() of line 410 succeeds; when it raises the handler ends there,
\* before it has written the flag or called the store. ok_db: the store call
\* succeeds; ok_send: the menu or text is delivered.
agency_router(u, data, ok_answer, ok_db, ok_send) ==
    /\ Dispatchable
    /\ conv[u] = AGENCY_MENU
    /\ user_data' = IF ok_answer THEN [user_data EXCEPT ![u] = agency_flag(data, @)]
                    ELSE user_data
    /\ support_sessions' = IF ok_answer /\ ok_db
                           THEN agency_store(support_sessions, u, data)
                           ELSE support_sessions
    /\ conv' = IF data = "nav:back:main" /\ ok_answer /\ ok_db /\ ok_send
               THEN [conv EXCEPT ![u] = MAIN_MENU]
               ELSE conv
    /\ UNCHANGED <<env, tickets, starts, tasks, adminChat, last_reply, pgVars>>

\* A button pressed in state CLOAKING_MENU (app.py:479-490).
cloaking_router(u, data, ok_send) ==
    /\ Dispatchable
    /\ conv[u] = CLOAKING_MENU
    /\ conv' = IF data = "nav:back:main" /\ ok_send
               THEN [conv EXCEPT ![u] = MAIN_MENU]
               ELSE conv
    /\ UNCHANGED <<env, user_data, support_sessions, tickets, starts, tasks, adminChat,
                   last_reply, pgVars>>

\* Mutant: the durable session is not consulted.
capture_user_text_entry_flag_only(u, private, ok_db) ==
    LET section == user_data[u]
        locals == [session_section |-> section, db_section |-> None, section |-> section]
    IN IF ~private THEN NewTask(u, private, "return_494", NoLocals)
       ELSE IF ~ok_db THEN NewTask(u, private, "raise_502", NoLocals)
       ELSE IF section \notin CaptureSections THEN NewTask(u, private, "return_507", NoLocals)
       ELSE NewTask(u, private, "await_514", locals)

\* Mutant: the durable session's category is preferred over the flag's.
capture_user_text_entry_db_first(u, private, ok_db) ==
    LET session_section == user_data[u]
        db_section == db_get_support_session(support_sessions, u)
        section == IF db_section # None THEN db_section ELSE session_section
        locals == [session_section |-> session_section, db_section |-> db_section,
                   section |-> section]
    IN IF ~private THEN NewTask(u, private, "return_494", NoLocals)
       ELSE IF ~ok_db THEN NewTask(u, private, "raise_502", NoLocals)
       ELSE IF section \notin CaptureSections THEN NewTask(u, private, "return_507", NoLocals)
       ELSE NewTask(u, private, "await_514", locals)

\* Mutant: the type of the chat is not looked at.
capture_user_text_entry_any_chat(u, private, ok_db) ==
    LET session_section == user_data[u]
        db_section == db_get_support_session(support_sessions, u)
        section == IF session_section # None THEN session_section ELSE db_section
        locals == [session_section |-> session_section, db_section |-> db_section,
                   section |-> section]
    IN IF ~ok_db THEN NewTask(u, private, "raise_502", NoLocals)
       ELSE IF section \notin CaptureSections THEN NewTask(u, private, "return_507", NoLocals)
       ELSE NewTask(u, private, "await_514", locals)

\* The task capture_user_text leaves at its first await or return
\* (app.py:492-514); ok_db: the store read succeeds.
capture_user_text_entry(u, private, ok_db) ==
    LET session_section == user_data[u]
        db_section == db_get_support_session(support_sessions, u)
        section == IF session_section # None THEN session_section ELSE db_section
        locals == [session_section |-> session_section, db_section |-> db_section,
                   section |-> section]
    IN IF ~private THEN NewTask(u, private, "return_494", NoLocals)
       ELSE IF ~ok_db THEN NewTask(u, private, "raise_502", NoLocals)
       ELSE IF section \notin CaptureSections THEN NewTask(u, private, "return_507", NoLocals)
       ELSE NewTask(u, private, "await_514", locals)

\* capture_user_text from its entry to the await of send_message (app.py:492-514).
capture_user_text_recv(u, private, ok_db) ==
    /\ Dispatchable
    /\ Len(tasks) < env.msgs
    /\ tasks' = Append(tasks, capture_user_text_entry(u, private, ok_db))
    /\ UNCHANGED <<env, user_data, conv, support_sessions, tickets, starts, adminChat,
                   last_reply, pgVars>>

\* Mutant: the ticket is written whether or not the header was delivered.
capture_tickets_unordered(tbl, t, header_msg_id, ok_send, ok_save) ==
    IF ok_save THEN db_save_ticket(tbl, t.user, t.section, header_msg_id) ELSE tbl

\* Mutant: the row stores a fixed id in place of the id of the delivered header.
capture_tickets_fixed_id(tbl, t, header_msg_id, ok_send, ok_save) ==
    IF ok_send /\ ok_save
    THEN db_save_ticket(tbl, t.user, t.section, 1)
    ELSE tbl

\* Mutant: the insert also closes the tickets that were open.
capture_tickets_close_previous(tbl, t, header_msg_id, ok_send, ok_save) ==
    IF ok_send /\ ok_save
    THEN db_save_ticket([j \in DOMAIN tbl |-> [tbl[j] EXCEPT !.status = "closed"]],
                        t.user, t.section, header_msg_id)
    ELSE tbl

\* The tickets table after lines 514-517: db_save_ticket runs once send_message
\* has returned the delivered header.
capture_tickets(tbl, t, header_msg_id, ok_send, ok_save) ==
    IF ok_send /\ ok_save
    THEN db_save_ticket(tbl, t.user, t.section, header_msg_id)
    ELSE tbl

\* Mutant: the UPDATE runs whether or not the session was read as active.
capture_sessions_always(tbl, t, ok_send, ok_save, ok_upd) ==
    IF ok_send /\ ok_save /\ ok_upd
    THEN db_touch_support_session(tbl, t.user)
    ELSE tbl

\* The support_sessions table after lines 520-526: the UPDATE runs if db_section.
capture_sessions(tbl, t, ok_send, ok_save, ok_upd) ==
    IF ok_send /\ ok_save /\ t.db_section # None /\ ok_upd
    THEN db_touch_support_session(tbl, t.user)
    ELSE tbl

\* Mutant: a failed insert is caught and the handler goes on to acknowledge.
capture_pc_swallow(t, ok_send, ok_save, ok_upd) ==
    IF ~ok_send THEN "raise_514"
    ELSE IF ok_save /\ t.db_section # None /\ ~ok_upd THEN "raise_523"
    ELSE "await_528"

\* Where lines 514-528 leave the handler: at the call that raised, or awaiting
\* the acknowledgment.
capture_pc(t, ok_send, ok_save, ok_upd) ==
    IF ~ok_send THEN "raise_514"
    ELSE IF ~ok_save THEN "raise_517"
    ELSE IF t.db_section # None /\ ~ok_upd THEN "raise_523"
    ELSE "await_528"

\* capture_user_text from the header's delivery to the await of the
\* acknowledgment (app.py:514-528). The text of message k is k. The locals
\* session_section and db_section are dead after line 520.
capture_user_text_sent(k, ok_send, ok_save, ok_upd) ==
    /\ k \in DOMAIN tasks
    /\ tasks[k].pc = "await_514"
    /\ LET t == tasks[k]
           header == build_ticket_header(t.section, t.user, k)
           header_msg_id == Len(adminChat) + 1
       IN /\ adminChat' = IF ok_send THEN Append(adminChat, header) ELSE adminChat
          /\ tickets' = capture_tickets(tickets, t, header_msg_id, ok_send, ok_save)
          /\ support_sessions' =
                 capture_sessions(support_sessions, t, ok_send, ok_save, ok_upd)
          /\ tasks' = [tasks EXCEPT ![k] =
                          [@ EXCEPT !.session_section = None, !.db_section = None,
                                    !.pc = capture_pc(t, ok_send, ok_save, ok_upd)]]
    /\ UNCHANGED <<env, user_data, conv, starts, last_reply, pgVars>>

\* capture_user_text's acknowledgment to the user (app.py:528).
capture_user_text_acked(k, ok_send) ==
    /\ k \in DOMAIN tasks
    /\ tasks[k].pc = "await_528"
    /\ tasks' = [tasks EXCEPT ![k] = IF ok_send
                                     THEN [@ EXCEPT !.pc = "done", !.acks = @ + 1]
                                     ELSE [@ EXCEPT !.pc = "raise_528"]]
    /\ UNCHANGED <<env, user_data, conv, support_sessions, tickets, starts, adminChat,
                   last_reply, pgVars>>

\* Mutant: a /reply that replies to nothing is dropped without an answer.
reply_effect_no_hint(chat_id, reply_to, text, ok_db, ok_user, ok_admin) ==
    LET none == [NoReply EXCEPT !.chat_id = chat_id, !.pc = "over"]
        looked == [none EXCEPT !.looked_up = TRUE]
        answer(m) == IF ok_admin THEN <<m>> ELSE <<>>
        ticket == db_get_ticket_by_admin_msg_id(tickets, reply_to[1])
        args_text == strip(removeprefix(text, CMD_REPLY))
    IN IF chat_id # ADMIN_CHAT_ID THEN none
       ELSE IF reply_to = <<>> THEN none
       ELSE IF ~ok_db THEN looked
       ELSE IF ticket = NoTicket THEN [looked EXCEPT !.to_admin = answer(NOT_FOUND)]
       ELSE IF args_text = <<>> THEN [looked EXCEPT !.to_admin = answer(USAGE)]
       ELSE IF ~ok_user THEN looked
       ELSE [looked EXCEPT !.to_user = <<[chat_id |-> ticket.user_id, text |-> args_text]>>,
                           !.to_admin = answer(SentTo(ticket.user_id))]

\* Mutant: the chat of the /reply is not checked.
reply_effect_any_chat(chat_id, reply_to, text, ok_db, ok_user, ok_admin) ==
    LET none == [NoReply EXCEPT !.chat_id = chat_id, !.pc = "over"]
        looked == [none EXCEPT !.looked_up = TRUE]
        answer(m) == IF ok_admin THEN <<m>> ELSE <<>>
        ticket == db_get_ticket_by_admin_msg_id(tickets, reply_to[1])
        args_text == strip(removeprefix(text, CMD_REPLY))
    IN IF reply_to = <<>> THEN [none EXCEPT !.to_admin = answer(REPLY_USAGE)]
       ELSE IF ~ok_db THEN looked
       ELSE IF ticket = NoTicket THEN [looked EXCEPT !.to_admin = answer(NOT_FOUND)]
       ELSE IF args_text = <<>> THEN [looked EXCEPT !.to_admin = answer(USAGE)]
       ELSE IF ~ok_user THEN looked
       ELSE [looked EXCEPT !.to_user = <<[chat_id |-> ticket.user_id, text |-> args_text]>>,
                           !.to_admin = answer(SentTo(ticket.user_id))]

\* What cmd_reply sends when it runs to its end (app.py:530-556). ok_db: the
\* lookup succeeds; ok_user, ok_admin: the delivery to the user, the answer to
\* the operator, succeed.
reply_effect(chat_id, reply_to, text, ok_db, ok_user, ok_admin) ==
    LET none == [NoReply EXCEPT !.chat_id = chat_id, !.pc = "over"]
        looked == [none EXCEPT !.looked_up = TRUE]
        answer(m) == IF ok_admin THEN <<m>> ELSE <<>>
        ticket == db_get_ticket_by_admin_msg_id(tickets, reply_to[1])
        args_text == strip(removeprefix(text, CMD_REPLY))
    IN IF chat_id # ADMIN_CHAT_ID THEN none
       ELSE IF reply_to = <<>> THEN [none EXCEPT !.to_admin = answer(REPLY_USAGE)]
       ELSE IF ~ok_db THEN looked
       ELSE IF ticket = NoTicket THEN [looked EXCEPT !.to_admin = answer(NOT_FOUND)]
       ELSE IF args_text = <<>> THEN [looked EXCEPT !.to_admin = answer(USAGE)]
       ELSE IF ~ok_user THEN looked
       ELSE [looked EXCEPT !.to_user = <<[chat_id |-> ticket.user_id, text |-> args_text]>>,
                           !.to_admin = answer(SentTo(ticket.user_id))]

\* /reply from its entry to its return, or to the await of line 556 once
\* send_message of line 555 has delivered the text to the user (app.py:530-556).
\* On the paths that return at 533, 538, 547 and 552 the handler sends at most
\* one message, as its last statement.
cmd_reply(chat_id, reply_to, text, ok_db, ok_user, ok_admin) ==
    /\ env.operator
    /\ Dispatchable
    /\ LET r == reply_effect(chat_id, reply_to, text, ok_db, ok_user, ok_admin)
       IN last_reply' = IF r.to_user # <<>>
                        THEN [r EXCEPT !.to_admin = <<>>, !.pc = "await_556"]
                        ELSE r
    /\ UNCHANGED <<env, user_data, conv, support_sessions, tickets, starts, tasks, adminChat,
                   pgVars>>

\* /reply from the await of line 556 to its end: msg.reply_text(f"Sent to user
\* {user_id}.") is delivered, or raises.
cmd_reply_answered(ok_admin) ==
    /\ last_reply.pc = "await_556"
    /\ last_reply' = [last_reply EXCEPT
                         !.to_admin = IF ok_admin
                                      THEN <<SentTo(last_reply.to_user[1].chat_id)>>
                                      ELSE <<>>,
                         !.pc = "over"]
    /\ UNCHANGED <<env, user_data, conv, support_sessions, tickets, starts, tasks, adminChat,
                   pgVars>>

\* The process stops and starts again: user_data and the conversation states
\* are lost, the handlers in flight die, the store keeps its rows.
Restart ==
    /\ env.restart
    /\ user_data' = [u \in Users |-> None]
    /\ conv' = [u \in Users |-> NoConv]
    /\ tasks' = [k \in DOMAIN tasks |->
                    IF tasks[k].pc \in {"await_514", "await_528"}
                    THEN [tasks[k] EXCEPT !.pc = "killed", !.session_section = None,
                                          !.db_section = None]
                    ELSE tasks[k]]
    /\ last_reply' = NoReply
    /\ UNCHANGED <<env, support_sessions, tickets, starts, adminChat, pgVars>>

\* Time passes: every session is TickHours further from its last activity.
Tick ==
    /\ env.clock
    /\ support_sessions' =
           [u \in Users |->
               IF support_sessions[u] = NoRow THEN NoRow
               ELSE [support_sessions[u] EXCEPT !.idle =
                        IF @ + TickHours > FRESH_HOURS THEN FRESH_HOURS ELSE @ + TickHours]]
    /\ UNCHANGED <<env, user_data, conv, tickets, starts, tasks, adminChat, last_reply,
                   pgVars>>

Next ==
    \/ \E u \in env.users, ok_db \in Outcomes("nav", 2), ok_send \in Outcomes("nav", 1) :
           start(u, ok_db[1], ok_db[2], ok_send[1])
    \/ \E u \in env.users, ok \in Outcomes("nav", 1) : cmd_end_support(u, ok[1])
    \/ \E u \in env.users, data \in CallbackData, ok \in Outcomes("nav", 1) :
           main_menu(u, data, ok[1])
    \/ \E u \in env.users, data \in CallbackData, ok \in Outcomes("nav", 3) :
           agency_router(u, data, ok[1], ok[2], ok[3])
    \/ \E u \in env.users, data \in CallbackData, ok \in Outcomes("nav", 1) :
           cloaking_router(u, data, ok[1])
    \/ \E u \in env.users, private \in BOOLEAN, ok \in Outcomes("capture", 1) :
           capture_user_text_recv(u, private, ok[1])
    \/ \E k \in DOMAIN tasks, ok \in Outcomes("capture", 3) :
           capture_user_text_sent(k, ok[1], ok[2], ok[3])
    \/ \E k \in DOMAIN tasks, ok \in Outcomes("capture", 1) :
           capture_user_text_acked(k, ok[1])
    \/ \E reply_to \in ReplyTargets, text \in ReplyTexts, ok \in Outcomes("reply", 3) :
           cmd_reply(ADMIN_CHAT_ID, reply_to, text, ok[1], ok[2], ok[3])
    \/ \E chat_id \in OtherChats, reply_to \in ReplyTargets :
           cmd_reply(chat_id, reply_to, MessageText(CMD_REPLY, HI), TRUE, TRUE, TRUE)
    \/ \E ok \in Outcomes("reply", 1) : cmd_reply_answered(ok[1])
    \/ Restart
    \/ Tick

Spec == Init /\ [][Next]_vars

\* The bot in the environment of RelayScenarios.
InitRelay == InitIn(RelayScenarios)
SpecRelay == InitRelay /\ [][Next]_vars

\* ------------------------------------------- the standalone store, db_pg.py
\* The admin_msg_id values the store is called with.
PgMsgIds == {1, 2}

\* cur.fetchone() after INSERT ... RETURNING ticket_id: the row, a 1-tuple.
pg_returning(tbl) == <<tbl[Len(tbl)].ticket_id>>

\* The rows SELECT ticket_id, user_id, section ... WHERE admin_msg_id=%s yields.
pg_select(tbl, admin_msg_id) ==
    {<<tbl[i].ticket_id, tbl[i].user_id, tbl[i].section>> :
        i \in {j \in DOMAIN tbl : tbl[j].admin_msg_id = admin_msg_id}}

\* row[i] of a Python tuple: the item, or IndexError past the end.
pg_getitem(row, i) ==
    IF i < Len(row) THEN [type |-> "item", value |-> <<row[i + 1]>>]
    ELSE [type |-> "IndexError", value |-> <<>>]

\* What get_ticket_by_admin_msg_id makes of the fetched row (db_pg.py:61-63):
\* {"ticket_id": row, "user_id": row[8], "section": row[9]}.
pg_ticket(row) ==
    LET user_id == pg_getitem(row, 8)
        section == pg_getitem(row, 9)
    IN IF user_id.type = "IndexError" \/ section.type = "IndexError"
       THEN [type |-> "IndexError", value |-> <<>>]
       ELSE [type |-> "dict", value |-> <<row, user_id.value[1], section.value[1]>>]

\* db_pg.save_ticket (db_pg.py:43-51): returns cur.fetchone().
save_ticket(user_id, section, admin_msg_id) ==
    /\ Len(pgTickets) < MaxPgRows
    /\ pgTickets' = db_save_ticket(pgTickets, user_id, section, admin_msg_id)
    /\ pgResult' = [op |-> "save_ticket", arg |-> admin_msg_id, type |-> "tuple",
                    value |-> pg_returning(pgTickets')]
    /\ UNCHANGED appVars

\* db_pg.get_ticket_by_admin_msg_id (db_pg.py:53-63): fetchone() yields one of
\* the selected rows, or None.
get_ticket_by_admin_msg_id(admin_msg_id) ==
    /\ \/ /\ pg_select(pgTickets, admin_msg_id) = {}
          /\ pgResult' = [op |-> "get_ticket_by_admin_msg_id", arg |-> admin_msg_id,
                          type |-> "NoneType", value |-> <<>>]
       \/ \E row \in pg_select(pgTickets, admin_msg_id) :
             pgResult' = [op |-> "get_ticket_by_admin_msg_id", arg |-> admin_msg_id,
                          type |-> pg_ticket(row).type, value |-> pg_ticket(row).value]
    /\ UNCHANGED <<pgTickets, appVars>>

NextPg ==
    \/ \E user_id \in Users, section \in CaptureSections, admin_msg_id \in PgMsgIds :
           save_ticket(user_id, section, admin_msg_id)
    \/ \E admin_msg_id \in PgMsgIds : get_ticket_by_admin_msg_id(admin_msg_id)

SpecPg == Init /\ [][NextPg]_vars

\* ============================================================== properties
\* The durable session of u is active: the row exists and is under 24 hours old.
Fresh(u) ==
    support_sessions[u] # NoRow /\ support_sessions[u].idle < FRESH_HOURS

\* u is in capture mode: a capture-enabling item was selected and one of its
\* two signals, the transient flag or the active durable session, still stands.
CaptureMode(u) == user_data[u] \in CaptureSections \/ Fresh(u)

\* The category u is capturing under.
Category(u) ==
    IF user_data[u] \in CaptureSections THEN user_data[u] ELSE support_sessions[u].section

\* The headers in the operator destination that relay inbound message k.
HeadersOf(k) == {i \in DOMAIN adminChat : adminChat[i].body = k}

\* The ticket rows that point at a header of inbound message k.
TicketsOf(k) == {j \in DOMAIN tickets : tickets[j].admin_msg_id \in HeadersOf(k)}

\* The ways capture_user_text ends without capturing the message.
Ignored == {"return_494", "return_507", "raise_502"}

\* Message k was captured with no failure: one header naming its user and
\* category, one ticket row for that header, and one acknowledgment once the
\* handler is over.
CapturedOnce(k) ==
    LET t == tasks[k]
    IN /\ Cardinality(HeadersOf(k)) = 1
       /\ \A i \in HeadersOf(k) :
             adminChat[i] = build_ticket_header(t.section, t.user, k)
       /\ Cardinality(TicketsOf(k)) = 1
       /\ \A j \in TicketsOf(k) :
             tickets[j].user_id = t.user /\ tickets[j].section = t.section
       /\ t.acks = (IF t.pc = "done" THEN 1 ELSE 0)

\* C1: a private free-text message of a user in capture mode, handled with no
\* delivery or store failure, is captured under the selected category and
\* produces exactly one header in the operator destination, exactly one ticket
\* row (the user's id, that category, the id of that header) and exactly one
\* acknowledgment.
C1_CaptureProducesOneOfEach ==
    [][/\ \A k \in DOMAIN tasks' \ DOMAIN tasks :
             LET t == tasks'[k]
             IN (t.private /\ CaptureMode(t.user) /\ t.pc # "raise_502")
                => (t.pc = "await_514" /\ t.section = Category(t.user))
       /\ \A k \in DOMAIN tasks' :
             tasks'[k].pc \in {"await_528", "done"} => CapturedOnce(k)'
       /\ \A k \in DOMAIN tasks' :
             tasks'[k].pc \notin {"await_528", "done"} => tasks'[k].acks = 0]_vars

\* A message went through capture_user_text to its acknowledgment.
C1_Witness ==
    \E k \in DOMAIN tasks :
        tasks[k].pc = "done" /\ tasks[k].acks = 1 /\ TicketsOf(k) # {}

\* C3: every ticket row names an already delivered header, there are never
\* more ticket rows than delivered headers, and a message whose header delivery
\* failed has no header, no ticket row and no acknowledgment.
C3_TicketAfterHeader ==
    /\ \A j \in DOMAIN tickets : tickets[j].admin_msg_id \in DOMAIN adminChat
    /\ Len(tickets) <= Len(adminChat)
    /\ \A k \in DOMAIN tasks :
          tasks[k].pc = "raise_514"
          => (HeadersOf(k) = {} /\ TicketsOf(k) = {} /\ tasks[k].acks = 0)

\* The delivery of a header failed.
C3_Witness == \E k \in DOMAIN tasks : tasks[k].pc = "raise_514"

\* C4: a free-text message of a user with no transient flag and no active
\* durable session is ignored: handling it changes neither the operator
\* destination nor the tickets table and acknowledges nothing, and an ignored
\* message never gets a header later.
C4_NoCaptureWithoutSignal ==
    [][/\ \A k \in DOMAIN tasks' \ DOMAIN tasks :
             ~CaptureMode(tasks'[k].user)
             => /\ tasks'[k].pc \in Ignored
                /\ tasks'[k].acks = 0
                /\ adminChat' = adminChat
                /\ tickets' = tickets
       /\ \A k \in DOMAIN tasks :
             tasks[k].pc \in Ignored => (tasks'[k] = tasks[k] /\ HeadersOf(k)' = {})]_vars

\* A private message of a user who is not in capture mode was handled.
C4_Witness ==
    \E k \in DOMAIN tasks : tasks[k].pc = "return_507" /\ tasks[k].private

\* Header m has a ticket row.
Mapped(m) == \E j \in DOMAIN tickets : tickets[j].admin_msg_id = m

\* A step that changes the record of the most recent /reply: every step of
\* cmd_reply that is not a stuttering step is one.
ReplyStep == last_reply' # last_reply

\* The outcomes of the three calls of cmd_reply: the lookup, the delivery to the
\* user, the answer to the operator.
ReplyOutcomes == [1..3 -> BOOLEAN]

\* C2: for every ticket created for header M of user U, a /reply with non-empty
\* text T sent in the operator destination as a reply to M, with no failure,
\* delivers exactly T to U and to nobody else, and the operator gets the
\* confirmation naming U.
C2_ReplyRoundTrip ==
    \A m \in DOMAIN adminChat, command \in ReplyCommands, T \in ReplyArgs \ {<<>>} :
        Mapped(m)
        => LET r == reply_effect(ADMIN_CHAT_ID, <<m>>, MessageText(command, T),
                                 TRUE, TRUE, TRUE)
           IN /\ r.to_user = <<[chat_id |-> adminChat[m].id, text |-> T]>>
              /\ r.to_admin = <<SentTo(adminChat[m].id)>>

\* C5: once /start has been handled for U, free text of U is not captured
\* (until U selects agency:schedule or agency:support again): the message U
\* sends next is ignored.
C5_NoCaptureAfterStart ==
    [][\A u \in Users :
          (\E ok_save, ok_end, ok_send \in BOOLEAN : start(u, ok_save, ok_end, ok_send))
          => (~CaptureMode(u)' /\ capture_user_text_entry(u, TRUE, TRUE)'.pc = "return_507")]_vars

\* The process has restarted and nobody has sent /start since.
Restarted == \A u \in env.users : conv[u] = NoConv /\ user_data[u] = None

\* C6: after a restart (a) free text of a user whose durable session is under
\* 24 hours old is captured under the session's category, and (b) a /reply to
\* a header that has a ticket is delivered to the user the header names.
C6_SurvivesRestart ==
    Restarted
    => /\ \A u \in env.users :
             Fresh(u)
             => LET t == capture_user_text_entry(u, TRUE, TRUE)
                IN t.pc = "await_514" /\ t.section = support_sessions[u].section
       /\ \A m \in DOMAIN adminChat :
             Mapped(m)
             => reply_effect(ADMIN_CHAT_ID, <<m>>, MessageText(CMD_REPLY, HI),
                             TRUE, TRUE, TRUE).to_user
                = <<[chat_id |-> adminChat[m].id, text |-> HI]>>

\* After a restart a session is still active and a /reply to a header from
\* before the restart has been delivered.
C6_Witness ==
    /\ Restarted
    /\ \E u \in env.users : Fresh(u) /\ last_reply.to_user = <<[chat_id |-> u, text |-> HI]>>

\* C7: save_ticket returns the ticket id the store assigned, and
\* get_ticket_by_admin_msg_id(m) returns the ticket_id, user_id and section of
\* a row saved with admin_msg_id m, or None when there is no such row.
C7_PgRoundTrip ==
    /\ pgResult.op = "save_ticket"
       => (pgResult.type = "int"
           /\ pgResult.value = <<pgTickets[Len(pgTickets)].ticket_id>>)
    /\ pgResult.op = "get_ticket_by_admin_msg_id"
       => IF \A j \in DOMAIN pgTickets : pgTickets[j].admin_msg_id # pgResult.arg
          THEN pgResult.type = "NoneType"
          ELSE /\ pgResult.type = "dict"
               /\ \E j \in DOMAIN pgTickets :
                     /\ pgTickets[j].admin_msg_id = pgResult.arg
                     /\ pgResult.value = <<pgTickets[j].ticket_id, pgTickets[j].user_id,
                                           pgTickets[j].section>>

\* C8: a /reply in the operator destination that replies to no message
\* delivers nothing to any user and is answered with the usage message (when
\* the answer can be delivered), and handling a /reply changes no store table.
C8_ReplyWithoutTarget ==
    /\ [](\A text \in ReplyTexts, ok \in ReplyOutcomes :
            LET r == reply_effect(ADMIN_CHAT_ID, <<>>, text, ok[1], ok[2], ok[3])
            IN /\ r.to_user = <<>>
               /\ ok[3] => r.to_admin = <<REPLY_USAGE>>)
    /\ [][ReplyStep => /\ tickets' = tickets
                       /\ support_sessions' = support_sessions
                       /\ starts' = starts]_vars

\* The operator got the usage message for a /reply that replies to nothing.
C8_Witness ==
    last_reply.chat_id = ADMIN_CHAT_ID /\ last_reply.to_admin = <<REPLY_USAGE>>

\* C9: a /reply in the operator destination to a message id that has no ticket
\* row delivers nothing to any user and is answered with the 'ticket mapping
\* not found' message (when the lookup and the answer's delivery succeed).
C9_ReplyToUnmapped ==
    \A m \in 0 .. env.msgs, text \in ReplyTexts, ok \in ReplyOutcomes :
        ~Mapped(m)
        => LET r == reply_effect(ADMIN_CHAT_ID, <<m>>, text, ok[1], ok[2], ok[3])
           IN /\ r.to_user = <<>>
              /\ (ok[1] /\ ok[3]) => r.to_admin = <<NOT_FOUND>>

\* The operator got 'not found' while a delivered header has no ticket row.
C9_Witness ==
    /\ last_reply.to_admin = <<NOT_FOUND>>
    /\ adminChat # <<>>
    /\ tickets = <<>>

\* C10: a /reply from a chat other than ADMIN_CHAT_ID sends nothing to anyone
\* and looks no ticket up, whatever it replies to, and handling it changes no
\* state of the bot.
C10_WrongChatNoOp ==
    /\ [](\A chat_id \in OtherChats, reply_to \in ReplyTargets, text \in ReplyTexts :
            LET r == reply_effect(chat_id, reply_to, text, TRUE, TRUE, TRUE)
            IN r.to_user = <<>> /\ r.to_admin = <<>> /\ ~r.looked_up)
    /\ [][(ReplyStep /\ last_reply'.chat_id \in OtherChats)
          => UNCHANGED <<user_data, conv, support_sessions, tickets, starts, tasks,
                         adminChat>>]_vars

\* A /reply from a user's chat was handled while a header has a ticket.
C10_Witness ==
    last_reply.chat_id \in OtherChats /\ tickets # <<>>

\* C11: cmd_reply checks, in this order, the chat, the reply target, the
\* ticket and the text. A /reply to a header that has a ticket, with nothing
\* after its command token, gets the usage hint and delivers nothing to the
\* user; a /reply with nothing after its command token to a message without
\* a ticket gets 'not found', not the usage hint.
C11_ReplyCheckOrder ==
    \A m \in 0 .. env.msgs, command \in ReplyCommands :
        LET r == reply_effect(ADMIN_CHAT_ID, <<m>>, MessageText(command, <<>>),
                              TRUE, TRUE, TRUE)
        IN /\ r.to_user = <<>>
           /\ r.to_admin = (IF Mapped(m) THEN <<USAGE>> ELSE <<NOT_FOUND>>)

\* C12: db_get_support_session returns the stored category while the row's
\* last activity is strictly under 24 hours ago and none from 24 hours on, with
\* the row still in the table; the read of capture_user_text changes no row.
C12_FreshnessBoundary ==
    /\ [](\A u \in Users :
            LET row == support_sessions[u]
                got == db_get_support_session(support_sessions, u)
            IN /\ (row # NoRow /\ row.idle < FRESH_HOURS) => got = row.section
               /\ (row # NoRow /\ row.idle >= FRESH_HOURS) => got = None
               /\ row = NoRow => got = None)
    /\ [][Len(tasks') > Len(tasks) => support_sessions' = support_sessions]_vars

\* A message was ignored because its user's session row, still in the table,
\* is 24 hours old.
C12_Witness ==
    \E k \in DOMAIN tasks :
        /\ tasks[k].pc = "return_507"
        /\ tasks[k].private
        /\ support_sessions[tasks[k].user] # NoRow
        /\ support_sessions[tasks[k].user].idle = FRESH_HOURS

\* The capture-enabling items and the category each one selects.
SelectedBy == [data \in {"agency:schedule", "agency:support"} |->
                  IF data = "agency:schedule" THEN SCHEDULE ELSE SUPPORT]

\* C13: support_sessions is keyed by user_id, so it holds at most one row per
\* user. A capture-enabling selection leaves the user's row with the selected
\* category and last_activity = now, whatever the row was, and touches no other
\* user's row; selecting the same item again leaves the same row, and of two
\* selections the later one's category stays.
C13_SessionUpsert ==
    /\ [](\A u \in Users, s1 \in CaptureSections, s2 \in CaptureSections :
            LET once == db_start_support_session(support_sessions, u, s1)
            IN /\ db_start_support_session(once, u, s1) = once
               /\ db_start_support_session(once, u, s2)[u] = [section |-> s2, idle |-> 0])
    /\ [][support_sessions' # support_sessions =>
          \A u \in Users, data \in DOMAIN SelectedBy, ok_send \in BOOLEAN :
             agency_router(u, data, TRUE, TRUE, ok_send)
             => /\ support_sessions'[u] = [section |-> SelectedBy[data], idle |-> 0]
                /\ \A v \in Users \ {u} : support_sessions'[v] = support_sessions[v]]_vars

\* A user captured a message under one category and has since selected the
\* other one: the row was replaced.
C13_Witness ==
    \E k \in DOMAIN tasks :
        LET u == tasks[k].user
        IN /\ tasks[k].pc = "done"
           /\ support_sessions[u] # NoRow
           /\ support_sessions[u].section # tasks[k].section
           /\ support_sessions[u].idle = 0
           /\ user_data[u] = support_sessions[u].section

\* C14: once the handler of nav:back:main in the agency menu, or of
\* /endsupport, has run for U with its store call done, U has an empty
\* transient flag and no support_sessions row, and the free text U sends next
\* is ignored.
C14_ExitClearsBoth ==
    [][<<user_data, conv, support_sessions>>' # <<user_data, conv, support_sessions>> =>
       \A u \in Users :
          (\/ \E ok_send \in BOOLEAN : agency_router(u, "nav:back:main", TRUE, TRUE, ok_send)
           \/ cmd_end_support(u, TRUE))
          => /\ user_data'[u] = None
             /\ support_sessions'[u] = NoRow
             /\ capture_user_text_entry(u, TRUE, TRUE)'.pc = "return_507"]_vars

\* A user who had a message captured is out of capture mode while still in
\* the agency menu.
C14_Witness ==
    \E k \in DOMAIN tasks :
        LET u == tasks[k].user
        IN /\ tasks[k].pc = "done"
           /\ conv[u] = AGENCY_MENU
           /\ user_data[u] = None
           /\ support_sessions[u] = NoRow

\* C15: where no store call fails, the process does not restart and no time
\* passes, the transient flag and the active durable session of every user
\* yield the same result: both absent or both the same category.
C15_SignalsSynchronized ==
    (env.faults = {} /\ ~env.restart /\ ~env.clock)
    => \A u \in env.users :
          user_data[u] = db_get_support_session(support_sessions, u)

\* C16: a private message whose store read succeeds is captured if and only if
\* the transient flag or the active durable session yields a capture category;
\* the category it is captured under is the flag's value whenever the flag is
\* set, also when the durable session holds another category, and the durable
\* session's category only when the flag is empty; the header and the ticket
\* row of a captured message carry that category.
C16_ResolutionPolicy ==
    /\ \A u \in env.users :
          LET t == capture_user_text_entry(u, TRUE, TRUE)
          IN /\ (t.pc = "await_514") <=> (user_data[u] \in CaptureSections \/ Fresh(u))
             /\ (t.pc # "await_514") <=> (t.pc = "return_507")
             /\ (t.pc = "await_514" /\ user_data[u] # None) => t.section = user_data[u]
             /\ (t.pc = "await_514" /\ user_data[u] = None)
                   => t.section = support_sessions[u].section
    /\ \A k \in DOMAIN tasks :
          /\ \A i \in HeadersOf(k) : adminChat[i].section = tasks[k].section
          /\ \A j \in TicketsOf(k) : tickets[j].section = tasks[k].section

\* A message was captured under the flag's category while the user's active
\* durable session holds the other category.
C16_Witness ==
    \E k \in DOMAIN tasks :
        LET u == tasks[k].user
        IN /\ tasks[k].pc = "done"
           /\ Fresh(u)
           /\ user_data[u] \in CaptureSections
           /\ support_sessions[u].section \in CaptureSections \ {user_data[u]}
           /\ \E j \in TicketsOf(k) : tickets[j].section = user_data[u]

\* C17: no two rows of the tickets table hold the same admin_msg_id, the
\* platform giving every delivered header a fresh message id.
C17_UniqueHeaderIds ==
    \A i, j \in DOMAIN tickets :
        tickets[i].admin_msg_id = tickets[j].admin_msg_id => i = j

\* Two messages were captured: two rows, each pointing at its own header.
C17_Witness ==
    /\ Len(tickets) >= 2
    /\ \A j \in DOMAIN tickets : tickets[j].admin_msg_id \in DOMAIN adminChat

\* C18: the tickets table is append-only. A step that changes it is the insert
\* of a capture whose header was delivered and whose insert succeeded: it adds
\* one open row for that message after the existing rows, which stay as they
\* were; /start, /endsupport, menu navigation, /reply, expiry and restart leave
\* the table unchanged.
C18_TicketsAppendOnly ==
    [][tickets' # tickets =>
          \E k \in DOMAIN tasks :
              /\ tasks[k].pc = "await_514"
              /\ tasks'[k].pc \in {"await_528", "raise_523"}
              /\ adminChat' = Append(adminChat,
                                     build_ticket_header(tasks[k].section, tasks[k].user, k))
              /\ tickets' = Append(tickets,
                                   [ticket_id |-> Len(tickets) + 1,
                                    user_id |-> tasks[k].user,
                                    section |-> tasks[k].section,
                                    admin_msg_id |-> Len(adminChat'),
                                    status |-> "open"])]_vars

\* A ticket is still there, open, after a second capture, a delivered /reply,
\* and the end of the user's capture mode.
C18_Witness ==
    /\ Len(tickets) >= 2
    /\ \A j \in DOMAIN tickets : tickets[j].status = "open" /\ tickets[j].ticket_id = j
    /\ last_reply.to_user # <<>>
    /\ \A u \in env.users : user_data[u] = None /\ support_sessions[u] = NoRow

\* The ways capture_user_text ends, or stands, with no ticket row written.
NoTicketWritten ==
    {"return_494", "return_507", "raise_502", "await_514", "raise_514", "raise_517"}

\* C19: a message whose store read of the active session failed has no header,
\* no ticket row and no acknowledgment; a message whose ticket insert failed has
\* its one header, no ticket row and no acknowledgment. An acknowledgment is
\* sent only for a message that has its ticket row, and nothing is retried: no
\* inbound message ever has more than one header, and the failed messages add
\* no row to the table.
C19_StoreFailureNoAck ==
    /\ \A k \in DOMAIN tasks :
          /\ Cardinality(HeadersOf(k)) <= 1
          /\ tasks[k].acks <= 1
          /\ tasks[k].acks > 0 => Cardinality(TicketsOf(k)) = 1
          /\ tasks[k].pc = "raise_502"
                => HeadersOf(k) = {} /\ TicketsOf(k) = {} /\ tasks[k].acks = 0
          /\ tasks[k].pc = "raise_517"
                => Cardinality(HeadersOf(k)) = 1 /\ TicketsOf(k) = {} /\ tasks[k].acks = 0
    /\ Len(tickets) <= Cardinality({k \in DOMAIN tasks : tasks[k].pc \notin NoTicketWritten})

\* The ticket insert of a captured message failed after its header was delivered.
C19_Witness ==
    \E k \in DOMAIN tasks :
        /\ tasks[k].pc = "raise_517"
        /\ tasks[k].section \in CaptureSections
        /\ HeadersOf(k) # {}

\* C22: whenever /start completes for user u and shows the root menu, whether
\* or not a store call inside the handler failed, u has an empty transient
\* flag and no support_sessions row.
C22_StartAlwaysClears ==
    [][\A u \in Users :
          (\E ok_save, ok_end \in BOOLEAN : start(u, ok_save, ok_end, TRUE))
          => (user_data'[u] = None /\ support_sessions'[u] = NoRow)]_vars

\* C23: free text received in a chat that is not private is never captured.
\* capture_user_text returns at once, whatever the sender's flag and session
\* and whether or not the store could be read, so the message has no header,
\* no ticket and no acknowledgment.
C23_NonPrivateIgnored ==
    /\ \A u \in env.users, ok_db \in BOOLEAN :
          capture_user_text_entry(u, FALSE, ok_db) = NewTask(u, FALSE, "return_494", NoLocals)
    /\ \A k \in DOMAIN tasks :
          ~tasks[k].private
          => /\ tasks[k].pc = "return_494"
             /\ HeadersOf(k) = {}
             /\ TicketsOf(k) = {}
             /\ tasks[k].acks = 0

\* A message in a chat that is not private was handled while its sender had
\* both a set flag and an active durable session.
C23_Witness ==
    \E k \in DOMAIN tasks :
        /\ ~tasks[k].private
        /\ tasks[k].pc = "return_494"
        /\ user_data[tasks[k].user] \in CaptureSections
        /\ Fresh(tasks[k].user)
        /\ adminChat = <<>> /\ tickets = <<>>

\* C24: every ticket row has one of the two capture categories as its section,
\* and its admin_msg_id is the id of a header in the operator destination that
\* names the row's user_id and the row's section.
C24_TicketWellFormed ==
    \A j \in DOMAIN tickets :
        /\ tickets[j].section \in CaptureSections
        /\ tickets[j].admin_msg_id \in DOMAIN adminChat
        /\ adminChat[tickets[j].admin_msg_id].id = tickets[j].user_id
        /\ adminChat[tickets[j].admin_msg_id].section = tickets[j].section

\* User 2 has a ticket under "Schedule a Call", and every row has its header.
C24_Witness ==
    /\ \E j \in DOMAIN tickets : tickets[j].section = SCHEDULE /\ tickets[j].user_id = 2
    /\ \A j \in DOMAIN tickets : tickets[j].admin_msg_id \in DOMAIN adminChat

\* C25: a capture that succeeds sets the user's last_activity to now exactly
\* when it read the durable session as active when it started; a capture driven
\* by the flag alone, the row absent or stale, leaves the table as it is. The
\* refresh is an UPDATE: it creates no row, also when the row it read has been
\* deleted in the meantime, and it touches no other user's row.
C25_ActivityRefresh ==
    /\ [](\A k \in DOMAIN tasks :
             tasks[k].pc = "await_514"
             => capture_sessions(db_end_support_session(support_sessions, tasks[k].user),
                                 tasks[k], TRUE, TRUE, TRUE)[tasks[k].user] = NoRow)
    /\ [][\A k \in DOMAIN tasks :
             (tasks[k].pc = "await_514" /\ tasks'[k].pc = "await_528")
             => LET u == tasks[k].user
                    row == support_sessions[u]
                IN /\ \A v \in Users \ {u} : support_sessions'[v] = support_sessions[v]
                   /\ row = NoRow => support_sessions'[u] = NoRow
                   /\ tasks[k].db_section = None => support_sessions'[u] = row
                   /\ (tasks[k].db_section # None /\ row # NoRow)
                         => support_sessions'[u] = [section |-> row.section, idle |-> 0]]_vars

\* A capture driven by the flag alone has just inserted its ticket: the user's
\* row is stale and its last_activity was left as it was.
C25_Witness ==
    \E k \in DOMAIN tasks :
        /\ tasks[k].pc = "await_528"
        /\ TicketsOf(k) # {}
        /\ user_data[tasks[k].user] \in CaptureSections
        /\ support_sessions[tasks[k].user] # NoRow
        /\ support_sessions[tasks[k].user].idle = FRESH_HOURS

\* The informational items of the agency menu.
InfoItems == {"agency:about", "agency:howto", "agency:faq", "agency:aurora"}

\* C26: the informational agency items and nav:back:agency do not end capture
\* mode. None of them changes the support_sessions table, and nav:back:agency
\* leaves the flag as it is; an informational item empties the flag, after
\* which free text of a user whose durable session is fresh is still captured,
\* under the session's category.
C26_InfoKeepsCapture ==
    /\ [](\A u \in env.users, data \in InfoItems \cup {"nav:back:agency"} :
             /\ agency_store(support_sessions, u, data) = support_sessions
             /\ data = "nav:back:agency" => agency_flag(data, user_data[u]) = user_data[u]
             /\ data \in InfoItems => agency_flag(data, user_data[u]) = None)
    /\ [][user_data' # user_data =>
          \A u \in Users :
             (/\ user_data'[u] # user_data[u]
              /\ \E data \in InfoItems, ok_db, ok_send \in BOOLEAN :
                    agency_router(u, data, TRUE, ok_db, ok_send))
             => /\ support_sessions' = support_sessions
                /\ user_data'[u] = None
                /\ Fresh(u) => LET t == capture_user_text_entry(u, TRUE, TRUE)'
                               IN /\ t.pc = "await_514"
                                  /\ t.section = support_sessions[u].section
                                  /\ t.session_section = None]_vars

\* Where nothing fails, restarts or expires: a user in the agency menu whose
\* flag an informational item has emptied sent a message, and it is being
\* captured from the durable session.
C26_Witness ==
    /\ env.faults = {} /\ ~env.restart /\ ~env.clock
    /\ \E k \in DOMAIN tasks :
          /\ tasks[k].pc = "await_514"
          /\ tasks[k].session_section = None
          /\ tasks[k].db_section \in CaptureSections
          /\ conv[tasks[k].user] = AGENCY_MENU
          /\ user_data[tasks[k].user] = None

\* C27: the resolution of a /reply depends only on the tickets table. In every
\* reachable state, whatever the flag, the session and the menu of the user, a
\* /reply in the operator destination to a header that has a ticket is resolved
\* to the user the header names: what it delivers goes to that user, and with
\* a text after the command something is delivered. Handling a /reply changes
\* no ticket, no session and no flag, so it resolves the same way when repeated.
C27_ReplyResolution ==
    /\ [](\A m \in DOMAIN adminChat, command \in ReplyCommands, args \in ReplyArgs :
             Mapped(m)
             => LET r == reply_effect(ADMIN_CHAT_ID, <<m>>, MessageText(command, args),
                                      TRUE, TRUE, TRUE)
                IN /\ r.looked_up
                   /\ \A i \in DOMAIN r.to_user : r.to_user[i].chat_id = adminChat[m].id
                   /\ args # <<>> => /\ Len(r.to_user) = 1
                                     /\ r.to_admin = <<SentTo(adminChat[m].id)>>)
    /\ [][(ReplyStep /\ last_reply'.chat_id = ADMIN_CHAT_ID)
          => /\ tickets' = tickets
             /\ support_sessions' = support_sessions
             /\ user_data' = user_data
             /\ conv' = conv
             /\ adminChat' = adminChat]_vars

\* A /reply was delivered to a user whose flag is empty and whose session has
\* expired.
C27_Witness ==
    /\ Len(last_reply.to_user) = 1
    /\ \E u \in env.users :
          /\ last_reply.to_user[1].chat_id = u
          /\ last_reply.to_admin = <<SentTo(u)>>
          /\ user_data[u] = None
          /\ support_sessions[u] # NoRow
          /\ support_sessions[u].idle = FRESH_HOURS
====
